---- MODULE Spec2Model ----
(***************************************************************************)
(* Model of spysmac.analyzer.Analyzer: timeout counting, penalized-average *)
(* runtime (PAR-X), the overview / performance / configuration tables and  *)
(* the cached performance table.                                           *)
(*                                                                         *)
(* Python values are dynamically typed, so every value the Analyzer        *)
(* handles is a tagged tuple: <<"NoneType">>, <<"num", n, d>> (the         *)
(* rational n/d in lowest terms), <<"nan">>, <<"str", s>>, <<"bool", b>>,  *)
(* <<"tuple", elems>>, <<"table", columns, index, data>>.                  *)
(***************************************************************************)
EXTENDS Integers, Sequences, FiniteSets, TLC

VARIABLES train_test, scenario, global_rh, performance_table, call, ret

vars == <<train_test, scenario, global_rh, performance_table, call, ret>>

----------------------------------------------------------------------------
(* Bounds of the model *)

\* largest number of runs in the run history
MaxRuns == 2
\* largest number of key-value pairs handed to _split_table
MaxPairs == 5

----------------------------------------------------------------------------
(* Python values *)

None == <<"NoneType">>
NaN == <<"nan">>
Inf == <<"inf">>
Str(s) == <<"str", s>>
Bool(b) == <<"bool", b>>
Tuple(elems) == <<"tuple", elems>>

RECURSIVE GCD(_, _)
GCD(a, b) == IF b = 0 THEN a ELSE GCD(b, a % b)

\* the number n/d (d > 0), in lowest terms
Num(n, d) ==
    LET g == GCD(IF n < 0 THEN -n ELSE n, d)
    IN  <<"num", n \div g, d \div g>>

PyInt(n) == Num(n, 1)

IsNum(v) == v[1] = "num"

\* element i of a Python tuple (0-based, as in the source)
Item(t, i) == t[2][i + 1]

\* Python truthiness: None, 0, "" and False are falsy
Truthy(v) == v \notin {None, PyInt(0), Str(""), Bool(FALSE)}

Digits == <<"0", "1", "2", "3", "4", "5", "6", "7", "8", "9">>

RECURSIVE ToStr(_)
ToStr(n) == IF n < 10 THEN Digits[n + 1]
            ELSE ToStr(n \div 10) \o Digits[(n % 10) + 1]

\* str(v) of an integer or a string, as "{}".format(v) renders it
StrOf(v) == IF v[1] = "str" THEN v[2] ELSE ToStr(v[2])

\* "{}/{}".format(a, b)
Format(a, b) == Str(StrOf(a) \o "/" \o StrOf(b))

RECURSIVE SumSeq(_)
SumSeq(s) == IF s = <<>> THEN 0 ELSE Head(s) + SumSeq(Tail(s))

\* np.mean of a list of integer costs: nan for the empty list
Mean(s) == IF s = <<>> THEN NaN ELSE Num(SumSeq(s), Len(s))

dec_place == 3

RECURSIVE Pow10(_)
Pow10(k) == IF k = 0 THEN 1 ELSE 10 * Pow10(k - 1)

\* round(x, places) of a non-negative number: to the nearest multiple of
\* 10^-places, ties to even; nan stays nan
Round(x, places) ==
    IF ~IsNum(x) THEN x
    ELSE LET scale == Pow10(places)
             q == (x[2] * scale) \div x[3]
             r == (x[2] * scale) % x[3]
             up == \/ 2 * r > x[3]
                   \/ (2 * r = x[3] /\ q % 2 = 1)
         IN  Num(IF up THEN q + 1 ELSE q, scale)

----------------------------------------------------------------------------
(* Configurations, scenario and run history *)

Params == <<"p1", "p2">>

ParamValues == {None, PyInt(0), PyInt(1), Str("a")}

\* a Configuration is an ordered mapping: a sequence of <<name, value>> pairs
KeyOrders == {Params, <<Params[2], Params[1]>>}

Configurations ==
    {[i \in 1..2 |-> <<o[i], v[i]>>] : o \in KeyOrders, v \in [1..2 -> ParamValues]}

\* default.keys()
Keys(config) == [i \in 1..Len(config) |-> config[i][1]]

\* config[k]
Get(config, k) == config[CHOOSE i \in 1..Len(config) : config[i][1] = k][2]

\* the two configurations that have runs in the run history
DefaultConfig == <<<<"p1", PyInt(0)>>, <<"p2", PyInt(1)>>>>
IncumbentConfig == <<<<"p1", PyInt(1)>>, <<"p2", None>>>>
RunConfigs == {DefaultConfig, IncumbentConfig}

Instances == {"i1", "i2"}

CostValues == {0, 1, 2}

CutoffValues == {None, PyInt(0), PyInt(1), PyInt(10)}

ParValues == {1, 10}

\* one entry of the run history: its key is (config, instance, position),
\* the position standing for the seed
Runs == [config : RunConfigs, instance : Instances, cost : CostValues]

Run(config, instance, cost) ==
    [config |-> config, instance |-> instance, cost |-> cost]

\* the worked example: three runs of one configuration costing 1, 2 and 20
ExampleHistory ==
    <<Run(DefaultConfig, "i1", 1), Run(DefaultConfig, "i1", 2),
      Run(DefaultConfig, "i1", 20)>>

RunHistories(n) == UNION {[1..k -> Runs] : k \in 0..n} \cup {ExampleHistory}

\* get_cost_dict_for_config(rh, config, metric): the runs of config, as
\* (run key, cost) items in the run history's order.  The run history holds
\* one observed cost per run, so the metric argument selects nothing here.
get_cost_dict_for_config(rh, config) ==
    SelectSeq(rh, LAMBDA run : run.config = config)

----------------------------------------------------------------------------
(* Analyzer.__init__ *)

Scenarios ==
    [cutoff : CutoffValues,
     train_insts : SUBSET Instances,
     test_insts : SUBSET Instances,
     wallclock_limit : {Inf},
     ta_run_limit : {Inf},
     algo_runs_timelimit : {Inf},
     deterministic : {Bool(FALSE)}]

NoCall == [method |-> "__init__", args |-> <<>>]

InitWith(scenarios, histories) ==
    /\ train_test \in BOOLEAN
    /\ scenario \in scenarios
    /\ global_rh \in histories
    /\ performance_table = None
    /\ call = NoCall
    /\ ret = None

----------------------------------------------------------------------------
(* get_timeouts *)

\* number of runs of the cost list marked TRUE in hits, one boolean per run
CountRuns(hits) == Cardinality({i \in 1..Len(hits) : hits[i]})

\* faulty variant: a run costing exactly the cutoff is not a timeout
IsTimeout_Strict(cost, cutoff) == cost > cutoff[2]

\* costs[run] >= cutoff
IsTimeout(cost, cutoff) == cost >= cutoff[2]

\* faulty variant: a run is attributed to one partition only: test is tried only
\* when the instance is not a train instance
TrainTestCounts_Exclusive(costs, cutoff) ==
    LET train_timeout == CountRuns([i \in 1..Len(costs) |->
            /\ costs[i].instance \in scenario.train_insts
            /\ costs[i].cost >= cutoff[2]])
        train_no_timeout == CountRuns([i \in 1..Len(costs) |->
            /\ costs[i].instance \in scenario.train_insts
            /\ costs[i].cost < cutoff[2]])
        test_timeout == CountRuns([i \in 1..Len(costs) |->
            /\ costs[i].instance \in scenario.test_insts \ scenario.train_insts
            /\ costs[i].cost >= cutoff[2]])
        test_no_timeout == CountRuns([i \in 1..Len(costs) |->
            /\ costs[i].instance \in scenario.test_insts \ scenario.train_insts
            /\ costs[i].cost < cutoff[2]])
    IN  Tuple(<<Tuple(<<PyInt(train_timeout), PyInt(train_no_timeout)>>),
                Tuple(<<PyInt(test_timeout), PyInt(test_no_timeout)>>)>>)

\* the loop of the split branch: two independent if / elif pairs per run
TrainTestCounts(costs, cutoff) ==
    LET train_timeout == CountRuns([i \in 1..Len(costs) |->
            /\ Truthy(cutoff) /\ costs[i].instance \in scenario.train_insts
            /\ IsTimeout(costs[i].cost, cutoff)])
        train_no_timeout == CountRuns([i \in 1..Len(costs) |->
            /\ Truthy(cutoff) /\ costs[i].instance \in scenario.train_insts
            /\ costs[i].cost < cutoff[2]])
        test_timeout == CountRuns([i \in 1..Len(costs) |->
            /\ Truthy(cutoff) /\ costs[i].instance \in scenario.test_insts
            /\ IsTimeout(costs[i].cost, cutoff)])
        test_no_timeout == CountRuns([i \in 1..Len(costs) |->
            /\ Truthy(cutoff) /\ costs[i].instance \in scenario.test_insts
            /\ costs[i].cost < cutoff[2]])
    IN  Tuple(<<Tuple(<<PyInt(train_timeout), PyInt(train_no_timeout)>>),
                Tuple(<<PyInt(test_timeout), PyInt(test_no_timeout)>>)>>)

\* the loop of the non-split branch: if / else per run
TotalCounts(costs, cutoff) ==
    LET timeout == CountRuns([i \in 1..Len(costs) |->
            Truthy(cutoff) /\ IsTimeout(costs[i].cost, cutoff)])
        no_timeout == CountRuns([i \in 1..Len(costs) |->
            ~(Truthy(cutoff) /\ IsTimeout(costs[i].cost, cutoff))])
    IN  Tuple(<<PyInt(timeout), PyInt(no_timeout)>>)

NA == Tuple(<<Str("N"), Str("A")>>)

\* faulty variant: split mode returns the single sentinel pair, not two of them
get_timeouts_FlatSentinel(config) ==
    LET costs == get_cost_dict_for_config(global_rh, config)
        cutoff == scenario.cutoff
    IN  IF cutoff \in {None, PyInt(0)}
        THEN NA
        ELSE IF train_test
             THEN TrainTestCounts(costs, cutoff)
             ELSE TotalCounts(costs, cutoff)

get_timeouts(config) ==
    LET costs == get_cost_dict_for_config(global_rh, config)
        cutoff == scenario.cutoff
    IN  IF train_test
        THEN IF ~Truthy(cutoff)
             THEN Tuple(<<NA, NA>>)
             ELSE TrainTestCounts(costs, cutoff)
        ELSE IF ~Truthy(cutoff)
             THEN NA
             ELSE TotalCounts(costs, cutoff)

GetTimeouts ==
    \E config \in RunConfigs :
        /\ call' = [method |-> "get_timeouts", args |-> <<config>>]
        /\ ret' = get_timeouts(config)
        /\ UNCHANGED <<train_test, scenario, global_rh, performance_table>>

----------------------------------------------------------------------------
(* get_parX *)

\* faulty variant: a timed-out run is charged its own cost times par
Penalize_OwnCost(runs, par) ==
    IF scenario.cutoff \notin {None, PyInt(0)}
    THEN [i \in 1..Len(runs) |->
            IF runs[i].cost < scenario.cutoff[2]
            THEN <<runs[i].instance, runs[i].cost>>
            ELSE <<runs[i].instance, runs[i].cost * par>>]
    ELSE [i \in 1..Len(runs) |-> <<runs[i].instance, runs[i].cost>>]

\* faulty variant: the penalty factor is applied although there is no cutoff
Penalize_NoCutoffFactor(runs, par) ==
    IF scenario.cutoff \notin {None, PyInt(0)}
    THEN [i \in 1..Len(runs) |->
            IF runs[i].cost < scenario.cutoff[2]
            THEN <<runs[i].instance, runs[i].cost>>
            ELSE <<runs[i].instance, scenario.cutoff[2] * par>>]
    ELSE [i \in 1..Len(runs) |-> <<runs[i].instance, runs[i].cost * par>>]

\* faulty variant: a run costing exactly the cutoff is not penalized
Penalize_AtCutoffRaw(runs, par) ==
    IF scenario.cutoff \notin {None, PyInt(0)}
    THEN [i \in 1..Len(runs) |->
            IF runs[i].cost <= scenario.cutoff[2]
            THEN <<runs[i].instance, runs[i].cost>>
            ELSE <<runs[i].instance, scenario.cutoff[2] * par>>]
    ELSE [i \in 1..Len(runs) |-> <<runs[i].instance, runs[i].cost>>]

\* the penalized (instance, cost) list of lines 104-111
Penalize(runs, par) ==
    IF Truthy(scenario.cutoff)
    THEN [i \in 1..Len(runs) |->
            IF runs[i].cost < scenario.cutoff[2]
            THEN <<runs[i].instance, runs[i].cost>>
            ELSE <<runs[i].instance, scenario.cutoff[2] * par>>]
    ELSE [i \in 1..Len(runs) |-> <<runs[i].instance, runs[i].cost>>]

\* [c for i, c in runs if i in insts]
CostsIn(runs, insts) ==
    LET kept == SelectSeq(runs, LAMBDA r : r[1] \in insts)
    IN  [i \in 1..Len(kept) |-> kept[i][2]]

get_parX(config, par) ==
    LET runs == Penalize(get_cost_dict_for_config(global_rh, config), par)
    IN  IF train_test
        THEN Tuple(<<Mean(CostsIn(runs, scenario.train_insts)),
                     Mean(CostsIn(runs, scenario.test_insts))>>)
        ELSE Mean([i \in 1..Len(runs) |-> runs[i][2]])

GetParX ==
    \E config \in RunConfigs, par \in ParValues :
        /\ call' = [method |-> "get_parX", args |-> <<config, par>>]
        /\ ret' = get_parX(config, par)
        /\ UNCHANGED <<train_test, scenario, global_rh, performance_table>>

----------------------------------------------------------------------------
(* tables: what DataFrame(...).to_html() renders, as header rows (one label
   per data column), row labels and rows of cells *)

Table(header, index, data) == <<"table", header, index, data>>

List(elems) == <<"list", elems>>

----------------------------------------------------------------------------
(* _split_table *)

Bold(key) == Str("<b>" \o key \o "</b>")

\* faulty variant: the leftover pair of an odd-length table is dropped
_split_table_NoLeftover(table) ==
    LET keys == [i \in 1..Len(table) |-> table[i][1]]
        half_size == Len(keys) \div 2
    IN  List([i \in 1..half_size |->
                Tuple(<<Bold(keys[i]), table[i][2],
                        Bold(keys[i + half_size]), table[i + half_size][2]>>)])

\* table: an OrderedDict, as a sequence of <<key, value>> pairs
_split_table(table) ==
    LET keys == [i \in 1..Len(table) |-> table[i][1]]
        value(k) == table[CHOOSE i \in 1..Len(table) : table[i][1] = k][2]
        half_size == Len(keys) \div 2
        full == [i \in 1..half_size |->
                    Tuple(<<Bold(keys[i]), value(keys[i]),
                            Bold(keys[i + half_size]), value(keys[i + half_size])>>)]
    IN  IF Len(keys) % 2 = 1
        THEN List(Append(full,
                 Tuple(<<Bold(keys[Len(keys)]), value(keys[Len(keys)]),
                         Str(""), Str("")>>)))
        ELSE List(full)

KeyName(i) == "k" \o ToStr(i)

CellValues == {PyInt(0), PyInt(1), Str("x")}

\* ordered mappings of up to n pairs with distinct keys
OrderedDicts(n) ==
    UNION {{[i \in 1..k |-> <<KeyName(i), v[i]>>] : v \in [1..k -> CellValues]} :
             k \in 0..n}

SplitTable ==
    \E table \in OrderedDicts(MaxPairs) :
        /\ call' = [method |-> "_split_table", args |-> <<table>>]
        /\ ret' = _split_table(table)
        /\ UNCHANGED <<train_test, scenario, global_rh, performance_table>>

----------------------------------------------------------------------------
(* create_overview_table *)

create_overview_table(best_folder) ==
    LET overview ==
            <<<<"Run with best incumbent", best_folder>>,
              <<"# Train instances", PyInt(Cardinality(scenario.train_insts))>>,
              <<"# Test instances", PyInt(Cardinality(scenario.test_insts))>>,
              <<"# Parameters", PyInt(Len(Params))>>,
              <<"Cutoff", scenario.cutoff>>,
              <<"Walltime budget", scenario.wallclock_limit>>,
              <<"Runcount budget", scenario.ta_run_limit>>,
              <<"CPU budget", scenario.algo_runs_timelimit>>,
              <<"Deterministic", scenario.deterministic>>>>
        overview_split == _split_table(overview)
    IN  Table(<<>>, <<>>, overview_split[2])

BestFolders == {Str("run1")}

CreateOverviewTable ==
    \E best_folder \in BestFolders :
        /\ call' = [method |-> "create_overview_table", args |-> <<best_folder>>]
        /\ ret' = create_overview_table(best_folder)
        /\ UNCHANGED <<train_test, scenario, global_rh, performance_table>>

----------------------------------------------------------------------------
(* create_performance_table *)

\* faulty variant: the two-level header is not spliced in: the split table keeps
\* the rendered header Train, Test, Train, Test
create_performance_table_FlatHeader(default, incumbent) ==
    LET def_timeout == get_timeouts(default)
        inc_timeout == get_timeouts(incumbent)
        def_par10 == get_parX(default, 10)
        inc_par10 == get_parX(incumbent, 10)
        def_par1 == get_parX(default, 1)
        inc_par1 == get_parX(incumbent, 1)
    IN  IF train_test
        THEN Table(<<<<"Train", "Test", "Train", "Test">>>>,
                   <<"PAR10", "PAR1", "Timeouts">>,
                   <<<<Round(Item(def_par10, 0), dec_place),
                       Round(Item(def_par10, 1), dec_place),
                       Round(Item(inc_par10, 0), dec_place),
                       Round(Item(inc_par10, 1), dec_place)>>,
                     <<Round(Item(def_par1, 0), dec_place),
                       Round(Item(def_par1, 1), dec_place),
                       Round(Item(inc_par1, 0), dec_place),
                       Round(Item(inc_par1, 1), dec_place)>>,
                     <<Format(Item(Item(def_timeout, 0), 0), Item(Item(def_timeout, 0), 1)),
                       Format(Item(Item(def_timeout, 1), 0), Item(Item(def_timeout, 1), 1)),
                       Format(Item(Item(inc_timeout, 0), 0), Item(Item(inc_timeout, 0), 1)),
                       Format(Item(Item(inc_timeout, 1), 0), Item(Item(inc_timeout, 1), 1))>>>>)
        ELSE Table(<<<<"Default", "Incumbent">>>>,
                   <<"PAR10", "PAR1", "Timeouts">>,
                   <<<<Round(def_par10, dec_place), Round(inc_par10, dec_place)>>,
                     <<Round(def_par1, dec_place), Round(inc_par1, dec_place)>>,
                     <<Format(Item(def_timeout, 0), Item(def_timeout, 1)),
                       Format(Item(inc_timeout, 0), Item(inc_timeout, 1))>>>>)

create_performance_table(default, incumbent) ==
    LET def_timeout == get_timeouts(default)
        inc_timeout == get_timeouts(incumbent)
        def_par10 == get_parX(default, 10)
        inc_par10 == get_parX(incumbent, 10)
        def_par1 == get_parX(default, 1)
        inc_par1 == get_parX(incumbent, 1)
    IN  IF train_test
        THEN Table(<<<<"Default", "Default", "Incumbent", "Incumbent">>,
                     <<"Train", "Test", "Train", "Test">>>>,
                   <<"PAR10", "PAR1", "Timeouts">>,
                   <<<<Round(Item(def_par10, 0), dec_place),
                       Round(Item(def_par10, 1), dec_place),
                       Round(Item(inc_par10, 0), dec_place),
                       Round(Item(inc_par10, 1), dec_place)>>,
                     <<Round(Item(def_par1, 0), dec_place),
                       Round(Item(def_par1, 1), dec_place),
                       Round(Item(inc_par1, 0), dec_place),
                       Round(Item(inc_par1, 1), dec_place)>>,
                     <<Format(Item(Item(def_timeout, 0), 0), Item(Item(def_timeout, 0), 1)),
                       Format(Item(Item(def_timeout, 1), 0), Item(Item(def_timeout, 1), 1)),
                       Format(Item(Item(inc_timeout, 0), 0), Item(Item(inc_timeout, 0), 1)),
                       Format(Item(Item(inc_timeout, 1), 0), Item(Item(inc_timeout, 1), 1))>>>>)
        ELSE Table(<<<<"Default", "Incumbent">>>>,
                   <<"PAR10", "PAR1", "Timeouts">>,
                   <<<<Round(def_par10, dec_place), Round(inc_par10, dec_place)>>,
                     <<Round(def_par1, dec_place), Round(inc_par1, dec_place)>>,
                     <<Format(Item(def_timeout, 0), Item(def_timeout, 1)),
                       Format(Item(inc_timeout, 0), Item(inc_timeout, 1))>>>>)

\* faulty variant: the table is returned but not stored on the instance
CreatePerformanceTable_NoCache ==
    \E default \in RunConfigs, incumbent \in RunConfigs :
        /\ call' = [method |-> "create_performance_table",
                    args |-> <<default, incumbent>>]
        /\ ret' = create_performance_table(default, incumbent)
        /\ UNCHANGED <<train_test, scenario, global_rh, performance_table>>

CreatePerformanceTable ==
    \E default \in RunConfigs, incumbent \in RunConfigs :
        LET table == create_performance_table(default, incumbent)
        IN  /\ call' = [method |-> "create_performance_table",
                        args |-> <<default, incumbent>>]
            /\ performance_table' = table
            /\ ret' = table
            /\ UNCHANGED <<train_test, scenario, global_rh>>

----------------------------------------------------------------------------
(* config_to_html *)

config_to_html(default, incumbent) ==
    LET keys == SelectSeq(Keys(default),
                    LAMBDA k : Truthy(Get(default, k)) \/ Truthy(Get(incumbent, k)))
        table == [i \in 1..Len(keys) |->
                    <<Get(default, keys[i]), Get(incumbent, keys[i])>>]
    IN  Table(<<<<"Default", "Incumbent">>>>, keys, table)

ConfigToHtml(configs) ==
    \E default \in configs, incumbent \in configs :
        /\ call' = [method |-> "config_to_html", args |-> <<default, incumbent>>]
        /\ ret' = config_to_html(default, incumbent)
        /\ UNCHANGED <<train_test, scenario, global_rh, performance_table>>

----------------------------------------------------------------------------
(* Specifications *)

\* the Analyzer's public reporting methods, on a short run history
Init == InitWith(Scenarios, RunHistories(1))

CompareRunConfigs == ConfigToHtml(RunConfigs)

Next ==
    \/ GetTimeouts
    \/ GetParX
    \/ CreateOverviewTable
    \/ CreatePerformanceTable
    \/ CompareRunConfigs

Spec == Init /\ [][Next]_vars

\* get_timeouts and get_parX over every run history of up to MaxRuns runs
InitStats == InitWith(Scenarios, RunHistories(MaxRuns))

NextStats == GetTimeouts \/ GetParX

SpecStats == InitStats /\ [][NextStats]_vars

\* config_to_html over every pair of configurations
\* (neither method reads the Analyzer: one scenario, no runs)
PlainScenario ==
    [cutoff |-> None, train_insts |-> {}, test_insts |-> {},
     wallclock_limit |-> Inf, ta_run_limit |-> Inf,
     algo_runs_timelimit |-> Inf, deterministic |-> Bool(FALSE)]

InitPure == InitWith({PlainScenario}, {<<>>})

CompareConfigs == ConfigToHtml(Configurations)

SpecConfig == InitPure /\ [][CompareConfigs]_vars

\* _split_table over every ordered mapping of up to MaxPairs pairs
SpecSplit == InitPure /\ [][SplitTable]_vars

----------------------------------------------------------------------------
(* Vocabulary of the properties. These are stated on the run history and
   the scenario directly, not through the operators above. *)

Called(method) == call.method = method

\* a cutoff is configured: present and non-zero
CutoffConfigured == scenario.cutoff \notin {None, <<"num", 0, 1>>}

CutoffValue == scenario.cutoff[2]

\* the runs of a configuration, as positions of the run history
RunsOf(config) == {i \in DOMAIN global_rh : global_rh[i].config = config}

RunsIn(config, insts) == {i \in RunsOf(config) : global_rh[i].instance \in insts}

CostOf(i) == global_rh[i].cost

\* the raw cost of every run of config
RawCosts(config) == [i \in RunsOf(config) |-> CostOf(i)]

\* what run i contributes to a PAR-par average under the configured cutoff
Contribution(i, par) ==
    IF CostOf(i) >= CutoffValue THEN CutoffValue * par ELSE CostOf(i)

Contributions(config, par) == [i \in RunsOf(config) |-> Contribution(i, par)]

\* the sum of the values of the function g
RECURSIVE SumOf(_)
SumOf(g) ==
    IF DOMAIN g = {} THEN 0
    ELSE LET i == CHOOSE j \in DOMAIN g : TRUE
         IN  g[i] + SumOf([j \in DOMAIN g \ {i} |-> g[j]])

\* v is the arithmetic mean of the values of g, a function on a set of
\* runs (nan when there are none)
IsMeanOf(v, g) ==
    IF DOMAIN g = {} THEN v = <<"nan">>
    ELSE /\ v[1] = "num"
         /\ v[2] * Cardinality(DOMAIN g) = SumOf(g) * v[3]

IsPairOf(v) == v[1] = "tuple" /\ Len(v[2]) = 2

\* v is the (train, test) pair of means of g over the runs of config
IsSplitMeanOf(v, config, g) ==
    /\ IsPairOf(v)
    /\ IsMeanOf(v[2][1], [i \in RunsIn(config, scenario.train_insts) |-> g[i]])
    /\ IsMeanOf(v[2][2], [i \in RunsIn(config, scenario.test_insts) |-> g[i]])

Counts(a, b) == <<"tuple", <<<<"num", a, 1>>, <<"num", b, 1>>>>>>

Sentinel == <<"tuple", <<<<"str", "N">>, <<"str", "A">>>>>>

----------------------------------------------------------------------------
(* C1 *)

\* C1 as stated: with a cutoff configured, get_parX returns the arithmetic
\* mean, over every run of the configuration, of cutoff * par for a run
\* costing >= cutoff and of the raw cost for a run costing < cutoff.
C1_MeanOfAllContributions ==
    (Called("get_parX") /\ CutoffConfigured) =>
        IsMeanOf(ret, Contributions(call.args[1], call.args[2]))

\* C1, amended: with a cutoff configured, a run costing >= cutoff contributes
\* exactly cutoff * par and a run costing < cutoff its raw cost; without the
\* train/test split the result is the arithmetic mean of the contributions of
\* all runs of the configuration; with the split it is the pair (mean of the
\* contributions of the runs on train instances, mean of those on test
\* instances), nan for a partition without runs.  Costs [1, 2, 20] with
\* cutoff 10 and par 10 give 103 / 3, which rounds to 34.333.
C1_PenalizedMean ==
    /\ (Called("get_parX") /\ CutoffConfigured) =>
          IF train_test
          THEN IsSplitMeanOf(ret, call.args[1],
                             Contributions(call.args[1], call.args[2]))
          ELSE IsMeanOf(ret, Contributions(call.args[1], call.args[2]))
    /\ (/\ Called("get_parX") /\ ~train_test
        /\ global_rh = ExampleHistory
        /\ scenario.cutoff = <<"num", 10, 1>>
        /\ call.args = <<DefaultConfig, 10>>) =>
          /\ ret = <<"num", 103, 3>>
          /\ Round(ret, 3) = <<"num", 34333, 1000>>

\* the worked example has been computed: one run above the cutoff
C1_Witness ==
    /\ Called("get_parX") /\ ~train_test
    /\ global_rh = ExampleHistory
    /\ scenario.cutoff = <<"num", 10, 1>>
    /\ call.args = <<DefaultConfig, 10>>
    /\ ret = <<"num", 103, 3>>

----------------------------------------------------------------------------
(* C7 *)

AllBelowCutoff(config) == \A i \in RunsOf(config) : CostOf(i) < CutoffValue

AllAtLeastCutoff(config) == \A i \in RunsOf(config) : CostOf(i) >= CutoffValue

\* the cases C7 is about: no cutoff, or par = 1 with every cost below it
C7_Case ==
    /\ Called("get_parX")
    /\ \/ ~CutoffConfigured
       \/ CutoffConfigured /\ call.args[2] = 1 /\ AllBelowCutoff(call.args[1])

\* C7 as stated: without a cutoff get_parX returns the plain arithmetic mean
\* of the raw costs of every run, the same for every par; with a cutoff, all
\* costs below it and par = 1 it returns that plain mean too.
C7_PlainMeanOfAllRuns ==
    C7_Case => IsMeanOf(ret, RawCosts(call.args[1]))

\* C7, amended: in those cases the result is built from raw costs only and
\* does not depend on par: without the train/test split it is the plain
\* arithmetic mean of the raw costs of the configuration's runs, with the
\* split the pair of plain means over its train and its test runs; without a
\* cutoff get_parX(config, 10) = get_parX(config, 1).
C7_RawMean ==
    /\ C7_Case =>
          IF train_test
          THEN IsSplitMeanOf(ret, call.args[1], RawCosts(call.args[1]))
          ELSE IsMeanOf(ret, RawCosts(call.args[1]))
    /\ (Called("get_parX") /\ ~CutoffConfigured) =>
          get_parX(call.args[1], 10) = get_parX(call.args[1], 1)

\* PAR10 was asked for without a cutoff, of a configuration with a costly run
C7_Witness ==
    /\ Called("get_parX") /\ scenario.cutoff = None
    /\ call.args[2] = 10
    /\ \E i \in RunsOf(call.args[1]) : CostOf(i) = 2
    /\ ret = <<"num", 2, 1>>

----------------------------------------------------------------------------
(* C10 *)

SomeTimeout(S) == \E i \in S : CostOf(i) >= CutoffValue

\* p1 and p10 are the PAR1 and PAR10 means over the non-empty set S of runs
Par1VsPar10(p1, p10, S) ==
    /\ p1[1] = "num" /\ p10[1] = "num"
    /\ p1[2] * p10[3] <= p10[2] * p1[3]
    /\ (p1 = p10) <=> ~SomeTimeout(S)

\* C10: with a positive cutoff, PAR1 <= PAR10 for a configuration with at
\* least one run (per partition with at least one run, in split mode), with
\* equality exactly when no such run costs >= cutoff.
C10_Par1AtMostPar10 ==
    (Called("get_parX") /\ CutoffConfigured /\ call.args[2] = 1) =>
        LET config == call.args[1]
            par10 == get_parX(config, 10)
            train == RunsIn(config, scenario.train_insts)
            test == RunsIn(config, scenario.test_insts)
        IN  IF train_test
            THEN /\ train # {} => Par1VsPar10(ret[2][1], par10[2][1], train)
                 /\ test # {} => Par1VsPar10(ret[2][2], par10[2][2], test)
            ELSE RunsOf(config) # {} => Par1VsPar10(ret, par10, RunsOf(config))

\* PAR1 of a configuration with a run costing exactly the cutoff
C10_Witness ==
    /\ Called("get_parX") /\ CutoffConfigured /\ call.args[2] = 1
    /\ ~train_test
    /\ \E i \in RunsOf(call.args[1]) : CostOf(i) = CutoffValue
    /\ ret # get_parX(call.args[1], 10)

----------------------------------------------------------------------------
(* C2 *)

NumRuns(config) == Cardinality(RunsOf(config))

\* C2 as stated: with a cutoff, get_timeouts returns (0, total_run_count)
\* when every run costs less than the cutoff and (total_run_count, 0) when
\* every run costs at least the cutoff.
C2_TotalRunCount ==
    (Called("get_timeouts") /\ CutoffConfigured) =>
        LET config == call.args[1]
        IN  /\ AllBelowCutoff(config) => ret = Counts(0, NumRuns(config))
            /\ AllAtLeastCutoff(config) => ret = Counts(NumRuns(config), 0)

\* C2, amended: that holds without the train/test split; with the split the
\* result is ((0, train_run_count), (0, test_run_count)), respectively
\* ((train_run_count, 0), (test_run_count, 0)), counting the runs of the
\* configuration whose instance is in the train set and in the test set.
C2_AllOrNothing ==
    (Called("get_timeouts") /\ CutoffConfigured) =>
        LET config == call.args[1]
            n == NumRuns(config)
            ntrain == Cardinality(RunsIn(config, scenario.train_insts))
            ntest == Cardinality(RunsIn(config, scenario.test_insts))
        IN  IF train_test
            THEN /\ AllBelowCutoff(config) =>
                       ret = <<"tuple", <<Counts(0, ntrain), Counts(0, ntest)>>>>
                 /\ AllAtLeastCutoff(config) =>
                       ret = <<"tuple", <<Counts(ntrain, 0), Counts(ntest, 0)>>>>
            ELSE /\ AllBelowCutoff(config) => ret = Counts(0, n)
                 /\ AllAtLeastCutoff(config) => ret = Counts(n, 0)

\* two runs, one costing exactly the cutoff, were all counted as timeouts
C2_Witness ==
    /\ Called("get_timeouts") /\ CutoffConfigured /\ ~train_test
    /\ AllAtLeastCutoff(call.args[1])
    /\ \E i \in RunsOf(call.args[1]) : CostOf(i) = CutoffValue
    /\ ret = Counts(2, 0)

----------------------------------------------------------------------------
(* C3 *)

\* C3: without a cutoff get_timeouts returns ("N", "A"), or the pair of two
\* ("N", "A") in split mode, whatever the runs are; nothing is counted.
C3_NotApplicable ==
    (Called("get_timeouts") /\ ~CutoffConfigured) =>
        ret = IF train_test THEN <<"tuple", <<Sentinel, Sentinel>>>> ELSE Sentinel

\* the sentinel pair of pairs was returned for a configuration with runs
C3_Witness ==
    /\ Called("get_timeouts") /\ ~CutoffConfigured /\ train_test
    /\ RunsOf(call.args[1]) # {}
    /\ ret = <<"tuple", <<Sentinel, Sentinel>>>>

----------------------------------------------------------------------------
(* C9 *)

TimeoutsIn(S) == Cardinality({i \in S : CostOf(i) >= CutoffValue})

\* C9: in split mode with a cutoff, the train pair counts exactly the runs
\* whose instance is a train instance and the test pair exactly those whose
\* instance is a test instance, independently: a run in neither set is in no
\* count, a run in both is in one count of each pair, and the two counts of
\* a pair add up to the number of runs of that partition.
C9_PartitionCounts ==
    (Called("get_timeouts") /\ train_test /\ CutoffConfigured) =>
        LET train == RunsIn(call.args[1], scenario.train_insts)
            test == RunsIn(call.args[1], scenario.test_insts)
        IN  /\ IsPairOf(ret) /\ IsPairOf(ret[2][1]) /\ IsPairOf(ret[2][2])
            /\ ret[2][1][2][1] = <<"num", TimeoutsIn(train), 1>>
            /\ ret[2][2][2][1] = <<"num", TimeoutsIn(test), 1>>
            /\ ret[2][1][2][1][2] + ret[2][1][2][2][2] = Cardinality(train)
            /\ ret[2][2][2][1][2] + ret[2][2][2][2][2] = Cardinality(test)

\* one run on an instance of both sets and one on an instance of neither
C9_Witness ==
    /\ Called("get_timeouts") /\ train_test /\ CutoffConfigured
    /\ \E i, j \in RunsOf(call.args[1]) :
          /\ global_rh[i].instance \in scenario.train_insts \cap scenario.test_insts
          /\ global_rh[j].instance \notin scenario.train_insts \cup scenario.test_insts
    /\ ret[2][1] = ret[2][2]
    /\ ret[2][1][2][1][2] + ret[2][1][2][2][2] = 1

----------------------------------------------------------------------------
(* C4 *)

\* C4: performance_table is None until create_performance_table is called;
\* every create_performance_table call leaves in it the table it returns,
\* and no other method changes it: the field always holds the return value
\* of the most recent create_performance_table call.
C4_CacheIsLastReturn ==
    /\ performance_table = None
    /\ [][IF call'.method = "create_performance_table"
          THEN performance_table' = ret'
          ELSE performance_table' = performance_table]_vars

\* a table was cached and has survived a later get_parX call
C4_Witness ==
    /\ Called("get_parX")
    /\ performance_table[1] = "table"
    /\ ret # performance_table

----------------------------------------------------------------------------
(* C8 *)

IsScalar(v) == v[1] \in {"num", "nan"}

\* a (timeouts, no-timeouts) pair: two counts or the two sentinel letters
IsCountPair(v) ==
    IsPairOf(v) /\ \A j \in 1..2 : v[2][j][1] \in {"num", "str"}

\* the table has exactly the data columns labels, in that order
HasColumns(table, labels) ==
    /\ table[1] = "table"
    /\ \A r \in 1..Len(table[4]) : Len(table[4][r]) = Len(labels)
    /\ \A r \in 1..Len(table[2]) : Len(table[2][r]) = Len(labels)
    /\ \A j \in 1..Len(labels) :
          [r \in 1..Len(table[2]) |-> table[2][r][j]] = labels[j]

C8_Shapes ==
    /\ Called("get_timeouts") =>
          IF train_test
          THEN IsPairOf(ret) /\ IsCountPair(ret[2][1]) /\ IsCountPair(ret[2][2])
          ELSE IsCountPair(ret)
    /\ Called("get_parX") =>
          IF train_test
          THEN IsPairOf(ret) /\ IsScalar(ret[2][1]) /\ IsScalar(ret[2][2])
          ELSE IsScalar(ret)
    /\ Called("create_performance_table") =>
          IF train_test
          THEN HasColumns(ret, <<<<"Default", "Train">>, <<"Default", "Test">>,
                                 <<"Incumbent", "Train">>, <<"Incumbent", "Test">>>>)
          ELSE HasColumns(ret, <<<<"Default">>, <<"Incumbent">>>>)

\* C8: whatever the cutoff, the train_test flag alone decides the shape of
\* each result: with it get_timeouts returns a pair of pairs, get_parX a
\* pair and the performance table has the four columns Default-Train,
\* Default-Test, Incumbent-Train, Incumbent-Test; without it they are one
\* pair, one value and the two columns Default, Incumbent.  No method
\* changes the flag.
C8_ShapeFollowsFlag ==
    /\ []C8_Shapes
    /\ [][train_test' = train_test]_vars

\* a four-column table was built in split mode without a cutoff
C8_Witness ==
    /\ Called("create_performance_table") /\ train_test
    /\ scenario.cutoff = None
    /\ Len(ret[4][1]) = 4
    /\ ret[4][3][1] = <<"str", "N/A">>

----------------------------------------------------------------------------
(* C5 *)

ValueOf(config, k) == (CHOOSE pair \in {config[i] : i \in 1..Len(config)} : pair[1] = k)[2]

Falsy(v) == v \in {None, <<"num", 0, 1>>, <<"str", "">>}

\* s is t with some elements left out, in the same order
RECURSIVE IsSubsequence(_, _)
IsSubsequence(s, t) ==
    IF s = <<>> THEN TRUE
    ELSE IF t = <<>> THEN FALSE
    ELSE IF Head(s) = Head(t) THEN IsSubsequence(Tail(s), Tail(t))
    ELSE IsSubsequence(s, Tail(t))

----------------------------------------------------------------------------
(* C6 *)

BoldCell(key) == <<"str", "<b>" \o key \o "</b>">>

Blank == <<"str", "">>

\* C6: for n pairs and h = n div 2, _split_table returns h full rows, row i
\* holding pair i and pair i + h, followed, iff n is odd, by one row holding
\* the last pair and two blank cells; every pair is in the output exactly
\* once (4 pairs: 2 full rows; 5 pairs: 2 full rows and the leftover row).
C6_TwoColumns ==
    Called("_split_table") =>
        LET table == call.args[1]
            n == Len(table)
            h == n \div 2
            rows == ret[2]
            cells(p) == <<BoldCell(table[p][1]), table[p][2]>>
            row(a, b) == <<"tuple", a \o b>>
        IN  /\ ret[1] = "list"
            /\ Len(rows) = h + (n % 2)
            /\ \A i \in 1..h : rows[i] = row(cells(i), cells(i + h))
            /\ n % 2 = 1 => rows[h + 1] = row(cells(n), <<Blank, Blank>>)
            /\ \A p \in 1..n :
                  Cardinality({rc \in (1..Len(rows)) \X {1, 3} :
                      <<rows[rc[1]][2][rc[2]], rows[rc[1]][2][rc[2] + 1]>> = cells(p)}) = 1
            /\ n = 4 => Len(rows) = 2
            /\ n = 5 => Len(rows) = 3 /\ rows[3][2][3] = Blank /\ rows[3][2][4] = Blank

\* five pairs were split into two full rows and the leftover row
C6_Witness ==
    /\ Called("_split_table")
    /\ Len(call.args[1]) = 5
    /\ Len(ret[2]) = 3
    /\ ret[2][3] = <<"tuple", <<BoldCell("k5"), call.args[1][5][2], Blank, Blank>>>>

====
